---- MODULE Spec2Model ----
(***************************************************************************)
(* A model of go-limit (package golimit, limit.go): a fixed-window HTTP    *)
(* rate limiter whose counters live in a redis store.                      *)
(*                                                                         *)
(* Strings the code takes apart (addresses) are sequences of one-character *)
(* strings; strings the code only concatenates or compares (methods,       *)
(* paths, keys, header values) are TLA+ strings.                           *)
(*                                                                         *)
(* The store is redis behind the process-wide client: INCR, EXPIRE and TTL *)
(* are atomic, time passes in whole seconds, and a call that returns an    *)
(* error has not changed the store. A request takes one step per store     *)
(* call; what Handle does between two store calls belongs to the step of   *)
(* the earlier one. In the specification CrashSpec a request in flight may *)
(* also be aborted at a store call (the process crashes or is killed): it  *)
(* takes no further step and what it did to the store stays.               *)
(*                                                                         *)
(* Specifications: Spec (Handle on the tests' rules and addresses),        *)
(* AddrSpec (getAddress on generated raw values), TableSpec (NewLimiter on *)
(* lists with repeated rules), KeySpec (the counting key with a ")" in     *)
(* address and path), ClientSpec (a second Limiter is constructed),        *)
(* CrashSpec (requests are aborted), BurstSpec (one key, seconds counted). *)
(***************************************************************************)
EXTENDS Integers, Sequences, FiniteSets, TLC

\* ------------------------------------------------------------------ bounds

\* Requests in one behaviour.
NReq == 3
\* Largest quota (Limit.Requests) of the /test rule.
MaxQ == 2
\* Window (Limit.Duration) of the /test rule, in seconds.
WindowD == 2
\* Store calls that fail, and requests that are aborted, in one behaviour.
MaxFail == 1
\* Longest generated raw address of the address-resolution specification.
MaxLen == 4
\* Longest list of limits of the rule-table specification.
MaxRules == 2
\* Requests in one behaviour of the specifications that look at one thing on
\* its own: the rule table, the counting key, the connection, aborted requests.
NLook == 2

\* ----------------------------------------------------------------- strings

\* Characters of generated raw addresses.
Alphabet == {"1", ".", ":", ",", " "}

\* The TLA+ string of a sequence of characters.
RECURSIVE Str(_)
Str(s) == IF s = <<>> THEN "" ELSE Head(s) \o Str(Tail(s))

\* unicode.IsSpace restricted to the characters the model uses.
IsSpace(c) == c = " "

\* strings.LastIndex(s, c) for a one-character c: the 0-based index of the
\* last occurrence, or -1.
LastIndex(s, c) ==
  LET hits == {i \in 1..Len(s) : s[i] = c}
  IN  IF hits = {} THEN -1
      ELSE (CHOOSE i \in hits : \A j \in hits : j <= i) - 1

\* strings.Index(s, c) for a one-character c: the first occurrence, or -1.
Index(s, c) ==
  LET hits == {i \in 1..Len(s) : s[i] = c}
  IN  IF hits = {} THEN -1
      ELSE (CHOOSE i \in hits : \A j \in hits : i <= j) - 1

\* strings.Split(s, sep) for a one-character sep: the pieces between the
\* separators, at least one piece.
RECURSIVE Split(_, _)
Split(s, sep) ==
  LET idx == Index(s, sep)
  IN  IF idx = -1 THEN <<s>>
      ELSE <<SubSeq(s, 1, idx)>> \o Split(SubSeq(s, idx + 2, Len(s)), sep)

\* strings.TrimSpace(s): s without its leading and trailing white space.
RECURSIVE TrimLeft(_)
TrimLeft(s) == IF s # <<>> /\ IsSpace(Head(s)) THEN TrimLeft(Tail(s)) ELSE s

RECURSIVE TrimRight(_)
TrimRight(s) ==
  IF s # <<>> /\ IsSpace(s[Len(s)]) THEN TrimRight(SubSeq(s, 1, Len(s) - 1)) ELSE s

TrimSpace(s) == TrimRight(TrimLeft(s))

\* strconv.FormatInt(n, 10).
Digit(d) == CASE d = 0 -> "0" [] d = 1 -> "1" [] d = 2 -> "2" [] d = 3 -> "3"
              [] d = 4 -> "4" [] d = 5 -> "5" [] d = 6 -> "6" [] d = 7 -> "7"
              [] d = 8 -> "8" [] d = 9 -> "9"

RECURSIVE FormatNat(_)
FormatNat(n) == IF n < 10 THEN Digit(n) ELSE FormatNat(n \div 10) \o Digit(n % 10)

FormatInt(n) == IF n < 0 THEN "-" \o FormatNat(0 - n) ELSE FormatNat(n)

\* ------------------------------------------------------ address resolution

\* ipAddrFromRemoteAddr(s): s up to its last colon, s itself without a colon.
ipAddrFromRemoteAddr(s) ==
  LET idx == LastIndex(s, ":")
  IN  IF idx = -1 THEN s ELSE SubSeq(s, 1, idx)

\* http.Header.Get: the header's value, "" when the request has no such header.
HeaderGet(h, name) == IF name \in DOMAIN h THEN h[name] ELSE <<>>

\* getAddress taking the last entry of the list for the first.
getAddressLastEntry(r, header) ==
  LET headerVal == IF header = "" THEN r.RemoteAddr ELSE HeaderGet(r.Header, header)
      addresses == Split(headerVal, ",")
      address   == ipAddrFromRemoteAddr(TrimSpace(addresses[Len(addresses)]))
  IN  IF address = <<>>
        THEN [address |-> <<>>, err |-> TRUE]
        ELSE [address |-> address, err |-> FALSE]

\* getAddress(r, header): the address and whether resolution failed.
getAddress(r, header) ==
  LET headerVal == IF header = "" THEN r.RemoteAddr ELSE HeaderGet(r.Header, header)
      addresses == Split(headerVal, ",")
      address   == ipAddrFromRemoteAddr(TrimSpace(addresses[1]))
  IN  IF address = <<>>
        THEN [address |-> <<>>, err |-> TRUE]
        ELSE [address |-> address, err |-> FALSE]

\* ----------------------------------------------------------------- limiter

\* A Limit value.
Limit(m, p, q, d) == [Method |-> m, Path |-> p, Requests |-> q, Duration |-> d]

\* The zero Limit a failed map lookup yields.
NoLimit == Limit("", "", 0, 0)

\* A map without entries.
EmptyMap == [k \in {} |-> 0]

\* The loop of NewLimiter keeping the entry a key already has.
RECURSIVE FillMapFirstWins(_, _, _)
FillMapFirstWins(limits, i, lMap) ==
  IF i > Len(limits) THEN lMap
  ELSE FillMapFirstWins(limits, i + 1,
                        lMap @@ ((limits[i].Method \o ":" \o limits[i].Path) :> limits[i]))

\* The loop of NewLimiter: lMap[limit.Method + ":" + limit.Path] = limit, in
\* list order from the i-th limit on.
RECURSIVE FillMap(_, _, _)
FillMap(limits, i, lMap) ==
  IF i > Len(limits) THEN lMap
  ELSE FillMap(limits, i + 1,
               ((limits[i].Method \o ":" \o limits[i].Path) :> limits[i]) @@ lMap)

\* NewLimiter(limits, header, c): the Limiter{header, lMap}.
NewLimiter(limits, header) ==
  [Header |-> header, LimitsMap |-> FillMap(limits, 1, EmptyMap)]

\* ------------------------------------------------------------------- store

\* What TTL answers for a key without an expiry, and for a key that is absent
\* (redis before 2.8 answers NoExpiry there too).
NoExpiry == -1
KeyAbsent == -2

\* INCR key: the key is created at 0 when absent, then incremented.
StoreIncr(st, k) ==
  IF k \in DOMAIN st
    THEN [st EXCEPT ![k].count = @ + 1]
    ELSE (k :> [count |-> 1, ttl |-> NoExpiry]) @@ st

\* EXPIRE key seconds: sets the time to live of an existing key.
StoreExpire(st, k, seconds) ==
  IF k \in DOMAIN st THEN [st EXCEPT ![k].ttl = seconds] ELSE st

\* TTL key: the answers the store may give.
StoreTtl(st, k) ==
  IF k \in DOMAIN st THEN {st[k].ttl} ELSE {KeyAbsent, NoExpiry}

\* One second passes in the store: a key whose time to live runs out is
\* removed, a key without an expiry stays.
StoreTick(st) ==
  LET live == {k \in DOMAIN st : st[k].ttl # 1}
  IN  [k \in live |-> IF st[k].ttl > 1 THEN [st[k] EXCEPT !.ttl = @ - 1] ELSE st[k]]

\* ---------------------------------------------------------------- response

\* rw.Header().Set(name, value).
HeaderSet(h, name, value) == (name :> value) @@ h

\* setHeaders without the floor of 0 under the remaining quota.
setHeadersNoClamp(hdrs, limit, count, timeout) ==
  LET remaining == limit.Requests - count
      h1 == HeaderSet(hdrs, "X-RateLimit-Remaining", FormatInt(remaining))
      h2 == HeaderSet(h1, "X-RateLimit-Limit", FormatInt(limit.Requests))
  IN  IF timeout >= 0 THEN HeaderSet(h2, "Retry-After", FormatInt(timeout)) ELSE h2

\* setHeaders with the remaining quota counted one too low.
setHeadersOffByOne(hdrs, limit, count, timeout) ==
  LET diff      == limit.Requests - count - 1
      remaining == IF diff < 0 THEN 0 ELSE diff
      h1 == HeaderSet(hdrs, "X-RateLimit-Remaining", FormatInt(remaining))
      h2 == HeaderSet(h1, "X-RateLimit-Limit", FormatInt(limit.Requests))
  IN  IF timeout >= 0 THEN HeaderSet(h2, "Retry-After", FormatInt(timeout)) ELSE h2

\* setHeaders(rw, limit, count, timeout): the response headers afterwards.
setHeaders(hdrs, limit, count, timeout) ==
  LET diff      == limit.Requests - count
      remaining == IF diff < 0 THEN 0 ELSE diff
      h1 == HeaderSet(hdrs, "X-RateLimit-Remaining", FormatInt(remaining))
      h2 == HeaderSet(h1, "X-RateLimit-Limit", FormatInt(limit.Requests))
  IN  IF timeout >= 0 THEN HeaderSet(h2, "Retry-After", FormatInt(timeout)) ELSE h2

\* ------------------------------------------------------------------ inputs

Reqs == 1..NReq

\* Raw addresses of the tests: "0.0.0.0:80", "0.0.0.0", "1.1.1.1:80, 2.2.2.2:80".
AddrWithPort == <<"0", ".", "0", ".", "0", ".", "0", ":", "8", "0">>
AddrWithoutPort == <<"0", ".", "0", ".", "0", ".", "0">>
AddrList ==
  <<"1", ".", "1", ".", "1", ".", "1", ":", "8", "0", ",", " ",
    "2", ".", "2", ".", "2", ".", "2", ":", "8", "0">>

ProxyHeader == "X-Forwarded-For"

\* The requests a client may send: method, r.URL.Path, r.RemoteAddr, r.Header.
Inputs ==
  { [Method |-> "GET", Path |-> "/test", RemoteAddr |-> AddrWithPort,
     Header |-> (ProxyHeader :> AddrList)],
    [Method |-> "GET", Path |-> "/expire", RemoteAddr |-> AddrWithoutPort, Header |-> EmptyMap],
    [Method |-> "GET", Path |-> "/none", RemoteAddr |-> AddrWithPort, Header |-> EmptyMap] }

\* The limits and the header a Limiter may be constructed with: the two
\* rules of the tests, /test with a quota up to MaxQ and a window of WindowD
\* seconds, /expire with a quota of 1 and a window of 1 second.
LimitsChoices ==
  { <<Limit("GET", "/test", q, WindowD), Limit("GET", "/expire", 1, 1)>> : q \in 1..MaxQ }

HeaderChoices == {"", ProxyHeader}

\* ------------------------------------------------------------------- state

VARIABLES
  limiter,  \* the Limiter: Header and LimitsMap
  store,    \* the redis store behind client: key -> [count, ttl], no absent keys
  hist,     \* history: key -> [created, age], see NewKey
  req,      \* each request: its place in Handle, its locals, its response
  fails,    \* how many store calls have failed and requests were aborted
  probe,    \* the input of a specification that checks one function on its own
  client,   \* the package variable client: the connection NewLimiter set last
  away      \* the store and history behind the connection client is not

vars == <<limiter, store, hist, req, fails, probe, client, away>>

\* A request that has not arrived. Besides the locals of Handle (limit, ok,
\* key, count, timeout) and the response (status, hdrs, body, served), it records
\* what the handler saw (seen), the window of the key it counted in (win),
\* for a request that goes on to the store whether no request was in flight
\* when it arrived (alone), its store calls (calls), the connections they
\* went through (via), the seconds since its increment, counted where
\* intervals are measured and no further than its rule's duration plus one
\* (since), and the step that failed (err).
IdleReq ==
  [pc |-> "idle", Method |-> "", Path |-> "", RemoteAddr |-> <<>>, Header |-> EmptyMap,
   limit |-> NoLimit, ok |-> FALSE, key |-> "", count |-> 0, timeout |-> 0,
   status |-> 0, hdrs |-> EmptyMap, body |-> "", served |-> FALSE, seen |-> EmptyMap,
   win |-> 0, alone |-> FALSE, calls |-> [incr |-> 0, expire |-> 0, ttl |-> 0],
   via |-> {}, since |-> 0, err |-> ""]

\* The history of a key never created: how many times the store created it
\* (its windows), and the seconds passed since its current window was armed.
NewKey == [created |-> 0, age |-> 0]

Hist(k) == IF k \in DOMAIN hist THEN hist[k] ELSE NewKey

NoProbe == [state |-> "off"]

\* The connections a Limiter may be constructed with; the Limiter that handles
\* the requests is constructed with the first.
FirstConn == "c1"
SecondConn == "c2"

\* A store nobody has used.
Unused == [store |-> EmptyMap, hist |-> EmptyMap]

Init ==
  /\ limiter \in {NewLimiter(l, h) : l \in LimitsChoices, h \in HeaderChoices}
  /\ store = EmptyMap
  /\ hist = EmptyMap
  /\ req = [r \in Reqs |-> IdleReq]
  /\ fails = 0
  /\ probe = NoProbe
  /\ client = FirstConn
  /\ away = Unused

InFlight == {r \in Reqs : req[r].pc \notin {"idle", "done"}}

\* ------------------------------------------------------------------ Handle

\* handler.ServeHTTP(rw, r): the wrapped handler sees the response headers set
\* so far and answers 200 "ok", as the tests' handler does.
ServeHTTP(q) ==
  [q EXCEPT !.served = TRUE, !.seen = q.hdrs, !.status = 200, !.body = "ok", !.pc = "done"]

\* rw.WriteHeader(code); return.
WriteHeader(q, code) == [q EXCEPT !.status = code, !.pc = "done"]

\* The counting key of a request.
CountingKey(address, method, path) ==
  "go-ratelimit:(" \o Str(address) \o ")" \o method \o path

\* The 400 written without the return: Handle goes on with the empty address.
AddressFailedNoReturn(q) ==
  [q EXCEPT !.err = "address", !.status = 400,
            !.key = CountingKey(<<>>, q.Method, q.Path), !.pc = "incr"]

\* getAddress failed: rw.WriteHeader(http.StatusBadRequest).
AddressFailed(q) == WriteHeader([q EXCEPT !.err = "address"], 400)

\* Handle without the return after the unlimited pass through: a request
\* without a rule goes on with the zero Limit.
LookupNoReturn(q, l) ==
  LET mapKey == q.Method \o ":" \o q.Path
      ok     == mapKey \in DOMAIN l.LimitsMap
      a      == getAddress(q, l.Header)
      q1     == IF ok THEN [q EXCEPT !.ok = TRUE, !.limit = l.LimitsMap[mapKey]] ELSE q
  IN  IF a.err THEN AddressFailed(q1)
      ELSE [q1 EXCEPT !.key = CountingKey(a.address, q.Method, q.Path), !.pc = "incr"]

\* Handle up to the first store call: the rule lookup, the unlimited pass
\* through, the address resolution and the key.
Lookup(q, l) ==
  LET mapKey == q.Method \o ":" \o q.Path
      ok     == mapKey \in DOMAIN l.LimitsMap
      a      == getAddress(q, l.Header)
  IN  IF ~ok THEN ServeHTTP(q)
      ELSE LET q1 == [q EXCEPT !.ok = TRUE, !.limit = l.LimitsMap[mapKey]]
           IN  IF a.err THEN AddressFailed(q1)
               ELSE [q1 EXCEPT !.key = CountingKey(a.address, q.Method, q.Path),
                               !.pc = "incr"]

\* The handler invoked before setHeaders.
AdmitServeFirst(q) ==
  [ServeHTTP(q) EXCEPT !.hdrs = setHeaders(q.hdrs, q.limit, q.count, -1)]

\* setHeaders(rw, limit, count, -1); handler.ServeHTTP(rw, r).
Admit(q) == ServeHTTP([q EXCEPT !.hdrs = setHeaders(q.hdrs, q.limit, q.count, -1)])

\* The 429 with the rule's duration for the store's answer.
RejectFullDuration(q, timeout) ==
  WriteHeader([q EXCEPT !.timeout = timeout,
                        !.hdrs = setHeaders(q.hdrs, q.limit, q.count, q.limit.Duration)], 429)

\* setHeaders(rw, limit, count, timeout); rw.WriteHeader(429).
Reject(q, timeout) ==
  WriteHeader([q EXCEPT !.timeout = timeout,
                        !.hdrs = setHeaders(q.hdrs, q.limit, q.count, timeout)], 429)

\* The quota test with >= for >.
OverQuotaInclusive(q) == q.count >= q.limit.Requests

\* count > limit.Requests
OverQuota(q) == q.count > q.limit.Requests

\* expire arming at the last admitted count for the first.
ArmsAtQuota(q) == q.count = q.limit.Requests

\* expire calling the store for every count within the quota.
ArmsUnderQuota(q) == q.count <= q.limit.Requests

\* expire calling the store for every count.
ArmsEvery(q) == q.count >= 1

\* expire(count, key, duration) calls the store only when count == 1.
Arms(q) == q.count = 1

\* Handle after expire returned nil: over quota the request goes on to
\* client.Ttl, otherwise it is admitted.
AfterExpire(q) == IF OverQuota(q) THEN [q EXCEPT !.pc = "ttl"] ELSE Admit(q)

\* client.Incr, client.Expire (through expire) or client.Ttl returned an
\* error: rw.WriteHeader(http.StatusInternalServerError); return.
IncrFailed(q) == WriteHeader([q EXCEPT !.err = "incr"], 500)

\* The error of expire logged and the request carried on.
ExpireFailedIgnored(q) == AfterExpire([q EXCEPT !.err = "expire"])

ExpireFailed(q) == WriteHeader([q EXCEPT !.err = "expire"], 500)

TtlFailed(q) == WriteHeader([q EXCEPT !.err = "ttl"], 500)

\* A request, one of ins, arrives and runs Handle up to its first store call.
\* Requests arrive in the order of their numbers.
ArriveFrom(r, ins) ==
  /\ req[r].pc = "idle"
  /\ IF r = 1 THEN TRUE ELSE req[r - 1].pc # "idle"
  /\ \E in \in ins :
       LET q == Lookup([IdleReq EXCEPT !.Method = in.Method, !.Path = in.Path,
                                       !.RemoteAddr = in.RemoteAddr,
                                       !.Header = in.Header], limiter)
       IN  req' = [req EXCEPT ![r] =
                     IF q.pc = "incr" THEN [q EXCEPT !.alone = (InFlight = {})] ELSE q]
  /\ UNCHANGED <<limiter, store, hist, fails, probe, client, away>>

Arrive(r) == ArriveFrom(r, Inputs)

\* Handle after client.Incr returned count: with count == 1 the next step is
\* the store call of expire; otherwise expire returns nil without a store
\* call and Handle runs on to its next store call or to its end.
AfterIncr(q) == IF Arms(q) THEN [q EXCEPT !.pc = "expire"] ELSE AfterExpire(q)

\* count, err := client.Incr(key), the call succeeding.
IncrOk(r) ==
  /\ req[r].pc = "incr"
  /\ LET k == req[r].key
     IN  /\ store' = StoreIncr(store, k)
         /\ hist' = IF k \in DOMAIN store THEN hist
                    ELSE (k :> [created |-> Hist(k).created + 1, age |-> 0]) @@ hist
         /\ req' = [req EXCEPT ![r] = AfterIncr([req[r] EXCEPT !.count = store'[k].count,
                                                               !.win = hist'[k].created,
                                                               !.calls.incr = @ + 1, !.via = @ \cup {client}])]
  /\ UNCHANGED <<limiter, fails, probe, client, away>>

\* client.Incr(key) failing: the store is not changed.
IncrErr(r) ==
  /\ fails < MaxFail
  /\ req[r].pc = "incr"
  /\ req' = [req EXCEPT ![r] = IncrFailed([req[r] EXCEPT !.calls.incr = @ + 1, !.via = @ \cup {client}])]
  /\ fails' = fails + 1
  /\ UNCHANGED <<limiter, store, hist, probe, client, away>>

\* expire called with the rule's quota for its duration.
ExpireOkQuotaForDuration(r) ==
  /\ req[r].pc = "expire"
  /\ store' = StoreExpire(store, req[r].key, req[r].limit.Requests)
  /\ hist' = [hist EXCEPT ![req[r].key].age = 0]
  /\ req' = [req EXCEPT ![r] = AfterExpire([req[r] EXCEPT !.calls.expire = @ + 1, !.via = @ \cup {client}])]
  /\ UNCHANGED <<limiter, fails, probe, client, away>>

\* client.Expire(key, duration) in expire, the call succeeding: the store
\* arms the key.
ExpireOk(r) ==
  /\ req[r].pc = "expire"
  /\ store' = StoreExpire(store, req[r].key, req[r].limit.Duration)
  /\ hist' = [hist EXCEPT ![req[r].key].age = 0]
  /\ req' = [req EXCEPT ![r] = AfterExpire([req[r] EXCEPT !.calls.expire = @ + 1, !.via = @ \cup {client}])]
  /\ UNCHANGED <<limiter, fails, probe, client, away>>

\* client.Expire failing: the key stays unarmed.
ExpireErr(r) ==
  /\ fails < MaxFail
  /\ req[r].pc = "expire"
  /\ req' = [req EXCEPT ![r] = ExpireFailed([req[r] EXCEPT !.calls.expire = @ + 1, !.via = @ \cup {client}])]
  /\ fails' = fails + 1
  /\ UNCHANGED <<limiter, store, hist, probe, client, away>>

\* The rejection giving the request's increment back to the store.
TtlOkReleasing(r) ==
  /\ req[r].pc = "ttl"
  /\ \E t \in StoreTtl(store, req[r].key) :
       req' = [req EXCEPT ![r] = Reject([req[r] EXCEPT !.calls.ttl = @ + 1, !.via = @ \cup {client}], t)]
  /\ store' = IF req[r].key \in DOMAIN store
                THEN [store EXCEPT ![req[r].key].count = @ - 1] ELSE store
  /\ UNCHANGED <<limiter, hist, fails, probe, client, away>>

\* timeout, err := client.Ttl(key), the call succeeding: the 429.
TtlOk(r) ==
  /\ req[r].pc = "ttl"
  /\ \E t \in StoreTtl(store, req[r].key) :
       req' = [req EXCEPT ![r] = Reject([req[r] EXCEPT !.calls.ttl = @ + 1, !.via = @ \cup {client}], t)]
  /\ UNCHANGED <<limiter, store, hist, fails, probe, client, away>>

\* client.Ttl failing.
TtlErr(r) ==
  /\ fails < MaxFail
  /\ req[r].pc = "ttl"
  /\ req' = [req EXCEPT ![r] = TtlFailed([req[r] EXCEPT !.calls.ttl = @ + 1, !.via = @ \cup {client}])]
  /\ fails' = fails + 1
  /\ UNCHANGED <<limiter, store, hist, probe, client, away>>

\* The request stops where it is, at a store call it has not made, and never
\* goes on: no response is written.
Aborted(q) == [q EXCEPT !.err = "abort", !.pc = "done"]

Abort(r) ==
  /\ fails < MaxFail
  /\ req[r].pc \in {"incr", "expire", "ttl"}
  /\ req' = [req EXCEPT ![r] = Aborted(req[r])]
  /\ fails' = fails + 1
  /\ UNCHANGED <<limiter, store, hist, probe, client, away>>

\* The history of the keys of store st after a second: the second counts for
\* every key that is armed and stays.
HistTick(h, st) ==
  [k \in DOMAIN h |->
     IF k \in DOMAIN StoreTick(st) /\ st[k].ttl >= 0
       THEN [h[k] EXCEPT !.age = @ + 1]
       ELSE [h[k] EXCEPT !.age = 0]]

\* A second passes in the stores: they age their keys.
TickStores ==
  /\ store' = StoreTick(store)
  /\ hist' = HistTick(hist, store)
  /\ away' = [store |-> StoreTick(away.store), hist |-> HistTick(away.hist, away.store)]
  /\ UNCHANGED <<limiter, fails, probe, client>>

\* A second passes, the seconds not counted: the step is left out when no
\* store holds a key, as it would change nothing.
Tick ==
  /\ store # EmptyMap \/ away.store # EmptyMap
  /\ TickStores
  /\ UNCHANGED req

\* A second passes and is counted for every request that has incremented.
TickClock ==
  /\ TickStores
  /\ req' = [r \in Reqs |->
               IF req[r].win > 0 /\ req[r].since <= req[r].limit.Duration
                 THEN [req[r] EXCEPT !.since = @ + 1]
                 ELSE req[r]]

Next ==
  \/ \E r \in Reqs : Arrive(r)
  \/ \E r \in Reqs : IncrOk(r)
  \/ \E r \in Reqs : IncrErr(r)
  \/ \E r \in Reqs : ExpireOk(r)
  \/ \E r \in Reqs : ExpireErr(r)
  \/ \E r \in Reqs : TtlOk(r)
  \/ \E r \in Reqs : TtlErr(r)
  \/ Tick

Spec == Init /\ [][Next]_vars

\* ------------------------------------------- address resolution on its own

\* Every string over Alphabet of at most MaxLen characters, and the tests'.
RawChoices ==
  UNION {[1..n -> Alphabet] : n \in 0..MaxLen}
    \cup {AddrWithPort, AddrWithoutPort, AddrList}

\* A request and a configured header for getAddress: the raw value is the
\* peer address ("peer"), the configured header ("header"), or the peer
\* address of a request that lacks the configured header ("absent").
ProbeOf(raw, from) ==
  [state |-> "input", from |-> from, raw |-> raw,
   RemoteAddr |-> IF from = "header" THEN AddrWithPort ELSE raw,
   Header |-> IF from = "header" THEN (ProxyHeader :> raw) ELSE EmptyMap,
   header |-> IF from = "peer" THEN "" ELSE ProxyHeader,
   out |-> [address |-> <<>>, err |-> FALSE]]

AddrInit ==
  /\ limiter = NewLimiter(<<>>, "")
  /\ store = EmptyMap
  /\ hist = EmptyMap
  /\ req = [r \in Reqs |-> IdleReq]
  /\ fails = 0
  /\ probe \in {ProbeOf(raw, from) : raw \in RawChoices, from \in {"peer", "header", "absent"}}
  /\ client = FirstConn
  /\ away = Unused

\* address, err := getAddress(r, header)
Resolve ==
  /\ probe.state = "input"
  /\ probe' = [probe EXCEPT !.state = "resolved", !.out = getAddress(probe, probe.header)]
  /\ UNCHANGED <<limiter, store, hist, req, fails, client, away>>

AddrNext == Resolve

AddrSpec == AddrInit /\ [][AddrNext]_vars

\* ------------------------------------------------------- requests are aborted

\* Handle, for NLook requests, any of which may be aborted at a store call.
CrashNext ==
  \/ \E r \in 1..NLook : Arrive(r)
  \/ \E r \in 1..NLook : IncrOk(r)
  \/ \E r \in 1..NLook : IncrErr(r)
  \/ \E r \in 1..NLook : ExpireOk(r)
  \/ \E r \in 1..NLook : ExpireErr(r)
  \/ \E r \in 1..NLook : TtlOk(r)
  \/ \E r \in 1..NLook : TtlErr(r)
  \/ \E r \in 1..NLook : Abort(r)
  \/ Tick

CrashSpec == Init /\ [][CrashNext]_vars

\* --------------------------------------------------- the rule table on its own

\* The rules a list of limits is made of: two rules for GET /test that differ
\* in their quota, and the rule for GET /expire.
RuleChoices ==
  {Limit("GET", "/test", 1, WindowD), Limit("GET", "/test", 2, WindowD),
   Limit("GET", "/expire", 1, 1)}

\* Every list of at most MaxRules rules, repeated rules included.
LimitLists == UNION {[1..n -> RuleChoices] : n \in 0..MaxRules}

\* The Limiter is constructed from any such list, which is kept aside.
TableInit ==
  /\ probe \in {[state |-> "table", limits |-> l] : l \in LimitLists}
  /\ limiter = NewLimiter(probe.limits, "")
  /\ store = EmptyMap
  /\ hist = EmptyMap
  /\ req = [r \in Reqs |-> IdleReq]
  /\ fails = 0
  /\ client = FirstConn
  /\ away = Unused

\* Handle, for NLook requests.
TableNext ==
  \/ \E r \in 1..NLook : Arrive(r)
  \/ \E r \in 1..NLook : IncrOk(r)
  \/ \E r \in 1..NLook : IncrErr(r)
  \/ \E r \in 1..NLook : ExpireOk(r)
  \/ \E r \in 1..NLook : ExpireErr(r)
  \/ \E r \in 1..NLook : TtlOk(r)
  \/ \E r \in 1..NLook : TtlErr(r)
  \/ Tick

TableSpec == TableInit /\ [][TableNext]_vars

\* ------------------------------------------------- the counting key on its own

\* Two rules, the path of one holding a ")", and requests to them behind a
\* proxy whose header the client fills in: with its address, or with text
\* that goes on after the address.
KeyLimits == <<Limit("GET", "/a", 1, 1), Limit("GET", "/a)GET/a", 1, 1)>>

AddrPlain == <<"1">>
AddrLong == <<"1", ")", "G", "E", "T", "/", "a">>

KeyInputs ==
  { [Method |-> "GET", Path |-> p, RemoteAddr |-> AddrWithPort,
     Header |-> (ProxyHeader :> a)] :
      p \in {"/a", "/a)GET/a"}, a \in {AddrPlain, AddrLong} }

KeyInit ==
  /\ limiter = NewLimiter(KeyLimits, ProxyHeader)
  /\ store = EmptyMap
  /\ hist = EmptyMap
  /\ req = [r \in Reqs |-> IdleReq]
  /\ fails = 0
  /\ probe = NoProbe
  /\ client = FirstConn
  /\ away = Unused

\* Handle, for NLook requests out of KeyInputs.
KeyNext ==
  \/ \E r \in 1..NLook : ArriveFrom(r, KeyInputs)
  \/ \E r \in 1..NLook : IncrOk(r)
  \/ \E r \in 1..NLook : IncrErr(r)
  \/ \E r \in 1..NLook : ExpireOk(r)
  \/ \E r \in 1..NLook : ExpireErr(r)
  \/ \E r \in 1..NLook : TtlOk(r)
  \/ \E r \in 1..NLook : TtlErr(r)
  \/ Tick

KeySpec == KeyInit /\ [][KeyNext]_vars

\* ------------------------------------------- a second Limiter is constructed

\* NewLimiter(limits, header, c) called again, for another Limiter, with the
\* connection c: the package variable client is set to c, so the store behind
\* client is from now on the one behind c. The Limiter constructed first is
\* as it was. (A call with the connection client already has changes nothing.)
NewLimiterAgain(c) ==
  /\ c # client
  /\ client' = c
  /\ store' = away.store
  /\ hist' = away.hist
  /\ away' = [store |-> store, hist |-> hist]
  /\ UNCHANGED <<limiter, req, fails, probe>>

ClientInit ==
  /\ limiter \in {NewLimiter(l, "") : l \in LimitsChoices}
  /\ store = EmptyMap
  /\ hist = EmptyMap
  /\ req = [r \in Reqs |-> IdleReq]
  /\ fails = 0
  /\ probe = NoProbe
  /\ client = FirstConn
  /\ away = Unused

\* Handle of the first Limiter, for NLook requests, while Limiters are
\* constructed.
ClientNext ==
  \/ \E r \in 1..NLook : Arrive(r)
  \/ \E r \in 1..NLook : IncrOk(r)
  \/ \E r \in 1..NLook : IncrErr(r)
  \/ \E r \in 1..NLook : ExpireOk(r)
  \/ \E r \in 1..NLook : ExpireErr(r)
  \/ \E r \in 1..NLook : TtlOk(r)
  \/ \E r \in 1..NLook : TtlErr(r)
  \/ Tick
  \/ \E c \in {FirstConn, SecondConn} : NewLimiterAgain(c)

ClientSpec == ClientInit /\ [][ClientNext]_vars

\* ------------------------------------------------- one key, the seconds counted

\* The requests to GET /test: with one Limiter they all have one counting key.
BurstInputs == {in \in Inputs : in.Path = "/test"}

\* The Limiter identifies clients by the peer address.
BurstInit ==
  /\ limiter \in {NewLimiter(l, "") : l \in LimitsChoices}
  /\ store = EmptyMap
  /\ hist = EmptyMap
  /\ req = [r \in Reqs |-> IdleReq]
  /\ fails = 0
  /\ probe = NoProbe
  /\ client = FirstConn
  /\ away = Unused

\* Handle without failing store calls and aborted requests, the seconds
\* counted.
BurstNext ==
  \/ \E r \in Reqs : ArriveFrom(r, BurstInputs)
  \/ \E r \in Reqs : IncrOk(r)
  \/ \E r \in Reqs : ExpireOk(r)
  \/ \E r \in Reqs : TtlOk(r)
  \/ TickClock

BurstSpec == BurstInit /\ [][BurstNext]_vars

\* ------------------------------------------------------------ vocabulary

Done(r) == req[r].pc = "done"

\* The request's increment succeeded: it counts in a window of its key.
Counted(r) == req[r].win > 0

\* The requests counted in the same window of the same key as r.
Group(r) == {s \in Reqs : req[s].win = req[r].win /\ req[s].key = req[r].key}

\* r's place among the requests of G, in the order of arrival.
Rank(r, G) == Cardinality({s \in G : s <= r})

\* The requests of G came one after the other: each but the first arrived
\* when no request was in flight.
Sequential(G) == \A s \in G : (\E t \in G : t < s) => req[s].alone

Quota(r) == req[r].limit.Requests

Duration(r) == req[r].limit.Duration

\* rw.Header().Get(name) on a response.
RespOf(q, name) == IF name \in DOMAIN q.hdrs THEN q.hdrs[name] ELSE ""

Resp(r, name) == RespOf(req[r], name)

\* The handler was invoked for a request that matched a rule.
Admitted(r) == Done(r) /\ req[r].ok /\ req[r].served

Rejected(r) == Done(r) /\ req[r].status = 429

\* ------------------------------------------------------------------ claims

\* C1: when one client's requests to a limited (method, path) come one after
\* the other within one window and no store call of theirs fails, the i-th
\* of them observes count i; the first Q are forwarded to the handler with
\* X-RateLimit-Remaining Q-1, Q-2, ..., 0 in that order, and the next is
\* answered 429 with X-RateLimit-Remaining 0, the handler not invoked.
C1_SequentialQuota ==
  \A r \in Reqs :
    (Counted(r) /\ Sequential(Group(r))) =>
      LET i == Rank(r, Group(r))
      IN  /\ req[r].count = i
          /\ (Done(r) /\ req[r].err = "") =>
               IF i <= Quota(r)
                 THEN /\ req[r].served
                      /\ req[r].status = 200
                      /\ Resp(r, "X-RateLimit-Remaining") = FormatInt(Quota(r) - i)
                 ELSE /\ ~req[r].served
                      /\ req[r].status = 429
                      /\ Resp(r, "X-RateLimit-Remaining") = "0"

\* C1's case: quota 2, three requests one after the other in one window, the
\* first two forwarded with remaining 1 and 0, the third answered 429.
C1_Witness ==
  /\ \A r \in 1..3 : Done(r) /\ Counted(r) /\ Group(r) = 1..3 /\ Quota(r) = 2
  /\ Sequential(1..3)
  /\ req[1].served /\ Resp(1, "X-RateLimit-Remaining") = "1"
  /\ req[2].served /\ Resp(2, "X-RateLimit-Remaining") = "0"
  /\ req[3].status = 429 /\ Resp(3, "X-RateLimit-Remaining") = "0"

\* C2: in every window of every key the counts the increment returned are
\* pairwise distinct and cover 1..N, N the number of requests counted in it,
\* whatever the interleaving; and when all N have ended without a failed
\* store call, min(Q, N) of them were admitted and the others answered 429
\* (for N > Q: exactly Q admitted, exactly N-Q rejected).
C2_ConcurrentAdmission ==
  \A r \in Reqs :
    Counted(r) =>
      LET G == Group(r)
          N == Cardinality(G)
          Q == Quota(r)
      IN  /\ {req[s].count : s \in G} = 1..N
          /\ (\A s \in G : Done(s) /\ req[s].err = "") =>
               /\ Cardinality({s \in G : Admitted(s)}) = (IF N > Q THEN Q ELSE N)
               /\ Cardinality({s \in G : Rejected(s)}) = (IF N > Q THEN N - Q ELSE 0)
               /\ \A s \in G : Admitted(s) \/ Rejected(s)

\* C2's case: quota 2 and three requests in one window, in flight together
\* and incrementing in another order than they arrived; two were admitted
\* and one rejected.
C2_Witness ==
  /\ \A r \in 1..3 : Done(r) /\ req[r].err = "" /\ Counted(r) /\ Group(r) = 1..3
                      /\ Quota(r) = 2
  /\ ~req[2].alone /\ ~req[3].alone
  /\ req[3].count = 1 /\ req[1].count = 3
  /\ Rejected(1) /\ Admitted(2) /\ Admitted(3)

\* C3: a key expires exactly the rule's duration after its window was armed,
\* not before; the request that then creates the key's next window observes
\* count 1; when it ends without a failed store call, it has left the key
\* armed with a time to live of exactly the rule's duration and is forwarded
\* to the handler with X-RateLimit-Remaining Q-1.
C3_FreshWindow ==
  [][\A r \in Reqs :
       LET k == req[r].key
       IN  /\ (Counted(r) /\ k \in DOMAIN store /\ k \notin DOMAIN store')
               => Hist(k).age + 1 = Duration(r)
           /\ (req[r].pc = "incr" /\ req'[r].pc = "expire"
                 /\ k \notin DOMAIN store /\ Hist(k).created >= 1)
               => req'[r].count = 1
           /\ (req[r].pc # "done" /\ req'[r].pc = "done" /\ req'[r].err = ""
                 /\ req'[r].win > 1 /\ req'[r].count = 1)
               => /\ k \in DOMAIN store'
                  /\ store'[k].ttl = Duration(r)
                  /\ req'[r].served
                  /\ req'[r].status = 200
                  /\ RespOf(req'[r], "X-RateLimit-Remaining") = FormatInt(Quota(r) - 1)]_vars

\* C3's case: a window ended over quota (a 429 in it), the key expired, and
\* the next request on the key was forwarded with remaining Q-1 and left the
\* key armed with the full duration.
C3_Witness ==
  \E r, s \in Reqs :
    /\ Rejected(s) /\ Counted(s)
    /\ Admitted(r) /\ req[r].key = req[s].key /\ req[r].win = req[s].win + 1
    /\ req[r].count = 1
    /\ Resp(r, "X-RateLimit-Remaining") = FormatInt(Quota(r) - 1)
    /\ req[r].key \in DOMAIN store
    /\ store[req[r].key].ttl = Duration(r)

\* C4: when a request is answered 429 and the store reports a time to live
\* for the key (not a negative sentinel), Retry-After is that number: the
\* rule's duration less the seconds passed since the window was armed, at
\* least 0, at most the duration, and the duration itself when no second has
\* passed. Retry-After is set on a 429 only from such an answer.
C4_RetryAfter ==
  [][\A r \in Reqs :
       (req[r].pc = "ttl" /\ req'[r].status = 429) =>
         LET k     == req[r].key
             armed == k \in DOMAIN store /\ store[k].ttl >= 0
         IN  /\ armed =>
                  /\ RespOf(req'[r], "Retry-After") = FormatInt(store[k].ttl)
                  /\ store[k].ttl = Duration(r) - Hist(k).age
                  /\ store[k].ttl >= 0
                  /\ store[k].ttl <= Duration(r)
                  /\ Hist(k).age = 0 =>
                       RespOf(req'[r], "Retry-After") = FormatInt(Duration(r))
             /\ "Retry-After" \in DOMAIN req'[r].hdrs => armed]_vars

\* C4's case: duration 2; one request was rejected right after the window
\* was armed (Retry-After 2) and another a second later (Retry-After 1).
C4_Witness ==
  \E r, s \in Reqs :
    /\ Rejected(r) /\ Rejected(s) /\ Duration(r) = 2
    /\ req[r].key = req[s].key /\ req[r].win = req[s].win
    /\ Resp(r, "Retry-After") = "2"
    /\ Resp(s, "Retry-After") = "1"

\* C5: every 429 response carries X-RateLimit-Remaining 0, X-RateLimit-Limit
\* Q and Retry-After; when the store answered the time-to-live query with a
\* negative sentinel, Retry-After is the rule's full duration.
C5_RejectHeaders ==
  \A r \in Reqs :
    Rejected(r) =>
      /\ Resp(r, "X-RateLimit-Remaining") = "0"
      /\ Resp(r, "X-RateLimit-Limit") = FormatInt(Quota(r))
      /\ "Retry-After" \in DOMAIN req[r].hdrs
      /\ req[r].timeout < 0 => Resp(r, "Retry-After") = FormatInt(Duration(r))

\* C6: the handler is not invoked for a request answered 429, 400 or 500 or
\* for one with a failed step; a request that matched a rule and reached the
\* handler observed a count of at most Q, and the handler saw
\* X-RateLimit-Remaining and X-RateLimit-Limit already set.
C6_HandlerOnlyAdmitted ==
  \A r \in Reqs :
    /\ (req[r].status \in {429, 400, 500} \/ req[r].err # "") => ~req[r].served
    /\ (req[r].served /\ req[r].ok) =>
         /\ req[r].count >= 1
         /\ req[r].count <= Quota(r)
         /\ DOMAIN req[r].seen = {"X-RateLimit-Remaining", "X-RateLimit-Limit"}
         /\ req[r].seen["X-RateLimit-Remaining"] = FormatInt(Quota(r) - req[r].count)
         /\ req[r].seen["X-RateLimit-Limit"] = FormatInt(Quota(r))

\* C6's case: one request reached the handler at the last count of the quota,
\* one was answered 429 and one 500, neither of them served.
C6_Witness ==
  \E r, s, t \in Reqs :
    /\ Admitted(r) /\ req[r].count = Quota(r)
    /\ Rejected(s) /\ ~req[s].served
    /\ Done(t) /\ req[t].status = 500 /\ ~req[t].served

\* C7: a request whose (method, path) has no rule is forwarded to the handler
\* as it came, in its one step: it makes no store call, has no counting key,
\* no count and no window, and neither its response nor what the handler saw
\* carries a header.
C7_NoRulePassThrough ==
  \A r \in Reqs :
    (req[r].pc # "idle" /\ (req[r].Method \o ":" \o req[r].Path) \notin DOMAIN limiter.LimitsMap) =>
      /\ Done(r)
      /\ req[r].served
      /\ req[r].status = 200
      /\ req[r].hdrs = EmptyMap
      /\ req[r].seen = EmptyMap
      /\ req[r].calls = [incr |-> 0, expire |-> 0, ttl |-> 0]
      /\ req[r].key = ""
      /\ req[r].count = 0
      /\ req[r].win = 0
      /\ req[r].key \notin DOMAIN store

\* C7's case: every request of the behaviour was to a path without a rule,
\* all were served, and the store is still empty.
C7_Witness ==
  /\ \A r \in Reqs : Done(r) /\ req[r].Path = "/none" /\ req[r].served
  /\ store = EmptyMap

\* C8: a request whose address resolution fails is answered 400, and one
\* whose store call fails (the increment, the expire at count 1, the ttl over
\* quota) is answered 500; it ends there, the handler not invoked, the failed
\* call made once and no store call after it. 400 and 500 arise in no other way.
C8_ErrorsEndRequest ==
  \A r \in Reqs :
    LET q == req[r]
    IN  /\ q.calls.incr <= 1 /\ q.calls.expire <= 1 /\ q.calls.ttl <= 1
        /\ q.err = "address" =>
             /\ Done(r) /\ q.status = 400 /\ ~q.served
             /\ q.calls = [incr |-> 0, expire |-> 0, ttl |-> 0]
        /\ q.err = "incr" =>
             /\ Done(r) /\ q.status = 500 /\ ~q.served
             /\ q.calls = [incr |-> 1, expire |-> 0, ttl |-> 0]
        /\ q.err = "expire" =>
             /\ Done(r) /\ q.status = 500 /\ ~q.served
             /\ q.calls = [incr |-> 1, expire |-> 1, ttl |-> 0]
             /\ q.count = 1
        /\ q.err = "ttl" =>
             /\ Done(r) /\ q.status = 500 /\ ~q.served
             /\ q.calls.incr = 1 /\ q.calls.ttl = 1
             /\ q.count > q.limit.Requests
        /\ q.status = 400 => q.err = "address"
        /\ q.status = 500 => q.err \in {"incr", "expire", "ttl"}

\* C8's case: one request failed address resolution (400) and another had its
\* expire call fail (500).
C8_Witness ==
  \E r, s \in Reqs :
    /\ req[r].err = "address" /\ req[r].status = 400
    /\ req[s].err = "expire" /\ req[s].status = 500

\* C9: an admitted request with count c has 1 <= c <= Q, X-RateLimit-Remaining
\* Q-c, X-RateLimit-Limit Q and no Retry-After; two admitted requests of one
\* window of a key carry different X-RateLimit-Remaining values, each in
\* 0..Q-1; and no response carries a negative X-RateLimit-Remaining.
C9_AdmittedHeaders ==
  \A r \in Reqs :
    /\ Admitted(r) =>
         /\ req[r].count >= 1
         /\ req[r].count <= Quota(r)
         /\ Resp(r, "X-RateLimit-Remaining") = FormatInt(Quota(r) - req[r].count)
         /\ Resp(r, "X-RateLimit-Remaining") \in {FormatInt(n) : n \in 0..(Quota(r) - 1)}
         /\ Resp(r, "X-RateLimit-Limit") = FormatInt(Quota(r))
         /\ "Retry-After" \notin DOMAIN req[r].hdrs
         /\ \A s \in Group(r) \ {r} :
              Admitted(s) => Resp(s, "X-RateLimit-Remaining") # Resp(r, "X-RateLimit-Remaining")
    /\ "X-RateLimit-Remaining" \in DOMAIN req[r].hdrs =>
         req[r].hdrs["X-RateLimit-Remaining"] \in {FormatInt(n) : n \in 0..Quota(r)}

\* C9's case: quota 2; two requests in flight together were admitted in one
\* window with remaining 1 and 0, and a third, two over the quota of another
\* window, was answered with remaining 0.
C9_Witness ==
  \E r, s, t \in Reqs :
    /\ Admitted(r) /\ Admitted(s) /\ s \in Group(r) /\ ~req[s].alone
    /\ Quota(r) = 2
    /\ Resp(r, "X-RateLimit-Remaining") = "1"
    /\ Resp(s, "X-RateLimit-Remaining") = "0"
    /\ Rejected(t) /\ Resp(t, "X-RateLimit-Remaining") = "0"

\* What address resolution is to return, stated on the raw value: the part
\* before the first comma, without the white space around it, up to its last
\* colon when it has one.
RefFirst(raw) ==
  CHOOSE p \in {SubSeq(raw, 1, n) : n \in 0..Len(raw)} :
    /\ \A i \in 1..Len(p) : p[i] # ","
    /\ Len(p) = Len(raw) \/ raw[Len(p) + 1] = ","

RefTrim(e) ==
  LET solid == {i \in 1..Len(e) : e[i] # " "}
  IN  IF solid = {} THEN <<>>
      ELSE SubSeq(e, CHOOSE i \in solid : \A j \in solid : i <= j,
                     CHOOSE i \in solid : \A j \in solid : j <= i)

RefHost(t) ==
  LET colons == {i \in 1..Len(t) : t[i] = ":"}
  IN  IF colons = {} THEN t
      ELSE SubSeq(t, 1, (CHOOSE i \in colons : \A j \in colons : j <= i) - 1)

\* C10: getAddress returns the first comma-separated entry of its source (the
\* configured header, or the peer address without one), trimmed of white
\* space and cut before its last colon: "0.0.0.0:80" gives "0.0.0.0",
\* "0.0.0.0" itself, "1.1.1.1:80, 2.2.2.2:80" gives "1.1.1.1"; an absent
\* header, and any value whose result is empty, gives an error.
C10_AddressResolution ==
  probe.state = "resolved" =>
    LET value == IF probe.from = "absent" THEN <<>> ELSE probe.raw
        want  == RefHost(RefTrim(RefFirst(value)))
    IN  /\ probe.out.err = (want = <<>>)
        /\ probe.out.address = want
        /\ probe.from = "absent" => probe.out.err
        /\ (probe.from # "absent" /\ probe.raw = AddrWithPort) =>
             ~probe.out.err /\ Str(probe.out.address) = "0.0.0.0"
        /\ (probe.from # "absent" /\ probe.raw = AddrWithoutPort) =>
             ~probe.out.err /\ probe.out.address = probe.raw
        /\ (probe.from # "absent" /\ probe.raw = AddrList) =>
             ~probe.out.err /\ Str(probe.out.address) = "1.1.1.1"

\* C10's case: the configured header holds "1.1.1.1:80, 2.2.2.2:80" and the
\* address resolved is "1.1.1.1".
C10_Witness ==
  /\ probe.state = "resolved"
  /\ probe.from = "header"
  /\ probe.raw = AddrList
  /\ ~probe.out.err
  /\ Str(probe.out.address) = "1.1.1.1"

\* A hexadecimal digit.
IsHex(c) ==
  c \in {"0", "1", "2", "3", "4", "5", "6", "7", "8", "9",
         "a", "b", "c", "d", "e", "f", "A", "B", "C", "D", "E", "F"}

\* s is an IPv6 address as text, without brackets and without a port: groups
\* of at most four hexadecimal digits between colons, either eight groups or
\* fewer with one "::" standing for the groups left out.
PlainIPv6(s) ==
  LET colons == {i \in 1..Len(s) : s[i] = ":"}
      pairs  == {i \in 1..(Len(s) - 1) : s[i] = ":" /\ s[i + 1] = ":"}
  IN  /\ s # <<>>
      /\ \A i \in 1..Len(s) : IsHex(s[i]) \/ s[i] = ":"
      /\ \A i \in 1..(Len(s) - 4) : \E j \in i..(i + 4) : s[j] = ":"
      /\ (s[1] = ":" => 1 \in pairs)
      /\ (s[Len(s)] = ":" => (Len(s) - 1) \in pairs)
      /\ \/ Cardinality(colons) = 7 /\ pairs = {}
         \/ Cardinality(colons) <= 7 /\ Cardinality(pairs) = 1

\* C11: a plain IPv6 address without a port ("::1", "1::1"), as the peer
\* address or the configured header's value, is resolved to itself: nothing
\* after its last colon is cut off and resolution does not fail.
C11_PlainIPv6 ==
  (probe.state = "resolved" /\ probe.from # "absent" /\ PlainIPv6(probe.raw)) =>
    /\ ~probe.out.err
    /\ probe.out.address = probe.raw

\* C12: the response of a request answered 429 has the body
\* "429, Too Many Requests".
C12_RejectBody ==
  \A r \in Reqs : Rejected(r) => req[r].body = "429, Too Many Requests"

\* The places in a list of limits of the rules for (method, path).
RulesFor(limits, m, p) ==
  {i \in 1..Len(limits) : limits[i].Method = m /\ limits[i].Path = p}

\* The rule table holds one rule for every (method, path) of the list it was
\* built from, the last of the list for that pair, and nothing else.
TableOf(limits, lMap) ==
  /\ \A i \in 1..Len(limits) :
       LET m    == limits[i].Method
           p    == limits[i].Path
           last == CHOOSE j \in RulesFor(limits, m, p) : \A n \in RulesFor(limits, m, p) : n <= j
           held == {k \in DOMAIN lMap : lMap[k].Method = m /\ lMap[k].Path = p}
       IN  /\ Cardinality(held) = 1
           /\ \A k \in held : lMap[k] = limits[last]
  /\ \A k \in DOMAIN lMap : RulesFor(limits, lMap[k].Method, lMap[k].Path) # {}

\* C13: the rule table NewLimiter builds holds exactly one rule for each
\* (method, path) of the list, the last of the list for that pair; a request
\* finds a rule exactly when the list has one for its (method, path), and then
\* that last one; and no step of request handling changes the table.
C13_RuleTable ==
  [][/\ limiter' = limiter
     /\ TableOf(probe.limits, limiter.LimitsMap)
     /\ \A r \in Reqs :
          req'[r].pc # "idle" =>
            LET at == RulesFor(probe.limits, req'[r].Method, req'[r].Path)
            IN  /\ req'[r].ok = (at # {})
                /\ req'[r].ok =>
                     req'[r].limit = probe.limits[CHOOSE j \in at : \A n \in at : n <= j]]_vars

\* C13's case: the list holds GET /test twice, with quota 2 and then with
\* quota 1; of two requests to GET /test the first was forwarded with
\* X-RateLimit-Limit 1 and the second answered 429.
C13_Witness ==
  /\ probe.state = "table"
  /\ probe.limits = <<Limit("GET", "/test", 2, WindowD), Limit("GET", "/test", 1, WindowD)>>
  /\ Admitted(1) /\ Resp(1, "X-RateLimit-Limit") = "1" /\ req[1].limit.Requests = 1
  /\ Rejected(2) /\ req[2].key = req[1].key

\* C14: the time to live of a key changes only by the passing of a second or
\* by the expire call of the request that observed count 1 on that key, which
\* sets it to the rule's duration; a request that observed a count above 1
\* makes no expire call, admitted or rejected; so an armed key's time to live
\* is always the duration less the seconds since it was armed.
C14_ArmedOnce ==
  [][/\ \A k \in DOMAIN store \cap DOMAIN store' :
          store'[k].ttl # store[k].ttl =>
            \/ store[k].ttl > 1 /\ store'[k].ttl = store[k].ttl - 1 /\ req' = req
            \/ \E r \in Reqs :
                 /\ req[r].key = k /\ req[r].count = 1 /\ req[r].pc = "expire"
                 /\ req'[r].calls.expire = 1
                 /\ store[k].ttl = NoExpiry
                 /\ store'[k].ttl = Duration(r)
     /\ \A r \in Reqs :
          /\ req'[r].count > 1 => req'[r].calls.expire = 0
          /\ (Counted(r) /\ req[r].key \in DOMAIN store' /\ store'[req[r].key].ttl >= 0)
               => store'[req[r].key].ttl = Duration(r) - hist'[req[r].key].age]_vars

\* C14's case: quota 2, window 2; the first request armed the key, a second
\* passed, then one request was admitted at count 2 and one rejected at count
\* 3, and the key's time to live is still the one second left of the window.
C14_Witness ==
  \E r, s, t \in Reqs :
    /\ Group(r) = {r, s, t} /\ Quota(r) = 2 /\ Duration(r) = 2
    /\ Admitted(r) /\ req[r].count = 1 /\ req[r].calls.expire = 1
    /\ Admitted(s) /\ req[s].count = 2 /\ req[s].calls.expire = 0
    /\ Rejected(t) /\ req[t].count = 3 /\ req[t].calls.expire = 0
    /\ Resp(t, "Retry-After") = "1"
    /\ req[r].key \in DOMAIN store
    /\ store[req[r].key].ttl = 1
    /\ Hist(req[r].key).age = 1

\* The request observed count 1 and ended without arming its key: its expire
\* call failed, or it was aborted before the call.
Unarmed(r) == Done(r) /\ req[r].count = 1 /\ req[r].err \in {"expire", "abort"}

\* C15: once the request that observed count 1 has ended without arming the
\* key, the key stays in the store without a time to live through every later
\* step, seconds passing included, and its count never falls; no other request
\* of that window makes an expire call; a request that increments the key
\* when its count has reached Q observes a count above Q and goes on to the
\* rejection; and no request with a count above Q is served: it is answered
\* 429 unless its own ttl call fails or it is aborted.
C15_UnarmedKeyStays ==
  [][\A r \in Reqs :
       Unarmed(r) =>
         LET k == req[r].key
         IN  /\ k \in DOMAIN store /\ store[k].ttl = NoExpiry
             /\ Hist(k).created = req[r].win
             /\ k \in DOMAIN store' /\ store'[k].ttl = NoExpiry
             /\ store'[k].count >= store[k].count
             /\ \A s \in Reqs \ {r} :
                  (req'[s].key = k /\ req'[s].win = req[r].win) =>
                    /\ req'[s].calls.expire = 0
                    /\ (req[s].pc = "incr" /\ req'[s].count > 0
                          /\ store[k].count >= Quota(s))
                         => req'[s].count > Quota(s) /\ req'[s].pc = "ttl"
                    /\ req'[s].count > Quota(s) =>
                         /\ ~req'[s].served
                         /\ (req'[s].pc = "done" /\ req'[s].err = "") => req'[s].status = 429]_vars

\* C15's case: quota 1; the request that observed count 1 was aborted before
\* its expire call; the next request on the key, arriving when the first had
\* ended, was answered 429 at count 2 with no time to live to report, and the
\* key is still there without a time to live.
C15_Witness ==
  \E r, t \in Reqs :
    /\ Unarmed(r) /\ req[r].err = "abort" /\ Quota(r) = 1
    /\ Rejected(t) /\ req[t].key = req[r].key /\ req[t].count = 2 /\ req[t].alone
    /\ req[t].timeout = NoExpiry
    /\ store[req[r].key] = [count |-> 2, ttl |-> NoExpiry]

\* The requests whose increment counted in the current window of key k.
CountedIn(k) == {r \in Reqs : req[r].key = k /\ req[r].win = Hist(k).created}

\* C16: the count of a key that stays in the store never falls from one step
\* to the next, and it is always the number of requests that incremented the
\* key in its current window, whatever became of them: forwarded, answered
\* 429, answered 500 after a failed expire or ttl call, aborted, or still in
\* flight; a request once counted stays counted in its window.
C16_NoRollback ==
  [][/\ \A k \in DOMAIN store \cap DOMAIN store' : store'[k].count >= store[k].count
     /\ \A k \in DOMAIN store : store[k].count = Cardinality(CountedIn(k))
     /\ \A k \in DOMAIN store' :
          store'[k].count = Cardinality({r \in Reqs : req'[r].key = k
                                                       /\ req'[r].win = hist'[k].created})
     /\ \A r \in Reqs :
          Counted(r) => req'[r].win = req[r].win /\ req'[r].key = req[r].key
                          /\ req'[r].count = req[r].count]_vars

\* C16's case: quota 1; of two requests counted in one window of a key one
\* was forwarded and one aborted after its increment, and the stored count is
\* 2, above the quota.
C16_Witness ==
  \E r, t \in Reqs :
    /\ Group(r) = {r, t} /\ Quota(r) = 1
    /\ Admitted(r)
    /\ Done(t) /\ req[t].err = "abort" /\ req[t].count = 2
    /\ req[r].key \in DOMAIN store
    /\ store[req[r].key].count = 2

\* The client identity, method and path of a request.
Triple(r) == <<getAddress(req[r], limiter.Header).address, req[r].Method, req[r].Path>>

\* C17: two requests matched by rules have the same counting key if and only
\* if they have the same (client identity, method, path); so requests of
\* different triples count in different keys of the store.
C17_KeyInjective ==
  \A r, s \in Reqs :
    (req[r].ok /\ req[s].ok /\ req[r].key # "" /\ req[s].key # "") =>
      ((req[r].key = req[s].key) <=> (Triple(r) = Triple(s)))

\* C18: every store call of a request handled by the Limiter constructed
\* first goes through the connection that Limiter was constructed with,
\* whatever Limiters are constructed before or during the request.
C18_OwnConnection ==
  \A r \in Reqs : req[r].via \subseteq {FirstConn}

\* C19: a request whose address resolution fails is answered 400 in the step
\* in which it arrives, and that step leaves every store as it was; the
\* request has no counting key, no count and no window and makes no store
\* call; and whenever a store changes other than by a second passing, the
\* step is a store call of a request that did not fail address resolution.
C19_AddressFailureNoQuota ==
  [][/\ \A r \in Reqs :
          req'[r].err = "address" =>
            /\ req'[r].pc = "done" /\ req'[r].status = 400 /\ ~req'[r].served
            /\ req'[r].calls = [incr |-> 0, expire |-> 0, ttl |-> 0]
            /\ req'[r].via = {}
            /\ req'[r].key = "" /\ req'[r].count = 0 /\ req'[r].win = 0
            /\ req[r].pc = "idle" => (store' = store /\ hist' = hist /\ away' = away)
     /\ (store' # store /\ req' # req) =>
          \E r \in Reqs : req'[r].calls # req[r].calls /\ req'[r].err # "address"]_vars

\* C19's case: the Limiter reads the proxy header; a request with the header
\* was counted and forwarded, a request without it was answered 400, and the
\* store holds the one key of the first with count 1 and nothing else.
C19_Witness ==
  \E r, s \in Reqs :
    /\ Admitted(r) /\ req[r].count = 1
    /\ Done(s) /\ req[s].err = "address" /\ req[s].status = 400 /\ s > r
    /\ req[s].Path = "/expire" /\ limiter.Header = ProxyHeader
    /\ DOMAIN store = {req[r].key}
    /\ store[req[r].key].count = 1

\* The increment of r returned a count within the quota: r is admitted.
Within(r) == Counted(r) /\ req[r].count <= Quota(r)

\* The requests of r's key admitted by an increment in the second of r's or
\* later.
AdmittedFrom(r) ==
  {s \in Reqs : Within(s) /\ req[s].key = req[r].key /\ req[s].since <= req[r].since}

\* C20: without failing store calls and aborted requests, at most Q requests
\* of a key are admitted in one window of it, and at most 2Q in any D + 1
\* consecutive seconds (the seconds n, ..., n + D, which hold every interval
\* of length D), whatever the order of the requests' steps and the expiry. A
\* request is admitted in the second of its increment, which decides it; the
\* D + 1 seconds are taken from the increment of each admitted request, while
\* no more than D seconds have passed since.
C20_WindowAndBurst ==
  \A r \in Reqs :
    Counted(r) =>
      /\ Cardinality({s \in Group(r) : Within(s)}) <= Quota(r)
      /\ Cardinality({s \in Group(r) : Admitted(s)}) <= Quota(r)
      /\ (Within(r) /\ req[r].since <= Duration(r)) =>
           Cardinality(AdmittedFrom(r)) <= 2 * Quota(r)

\* C20's case: quota 1, window 2; a request was admitted in one window of the
\* key and, D seconds after its increment, the increment of another request
\* opened the next window: 2Q requests admitted within D seconds, a third
\* request not yet counted.
C20_Witness ==
  \E r, s, t \in Reqs :
    /\ Quota(r) = 1 /\ Duration(r) = 2
    /\ Admitted(r) /\ req[r].win = 1 /\ req[r].since = Duration(r)
    /\ Within(s) /\ req[s].key = req[r].key /\ req[s].win = 2 /\ req[s].since = 0
    /\ req[t].pc = "incr" /\ req[t].key = req[r].key
    /\ Cardinality(AdmittedFrom(r)) = 2 * Quota(r)

====
